---------------------------- MODULE Spec2Model ----------------------------
(***************************************************************************)
(* A model of libpvr's VoxelVolume (src/libpvr/src/Volumes/VoxelVolume.cpp) *)
(* : the volume that wraps a voxel buffer, its two intersection handlers,  *)
(* the Gaussian field interpolator and the attribute lookup of sample().   *)
(*                                                                         *)
(* Numbers.  The code computes in double; the model computes in exact      *)
(* rationals [n, d] (d > 0, lowest terms), so a comparison such as t0 < t1 *)
(* or dot > 0.0 is the comparison of the real values.  +-DBL_MAX, the      *)
(* start values of the frustum loop, are the extended values PosMax and    *)
(* NegMax, which lie beyond every parameter a bounded ray produces.        *)
(***************************************************************************)
EXTENDS Integers, Sequences, FiniteSets, TLC

(***************************************************************************)
(* Bounds of the model                                                     *)
(***************************************************************************)
\* ray origins have integer coordinates in -MaxCoord .. MaxCoord
MaxCoord == 2
\* threads that call sample() concurrently
NumThreads == 2
\* Gaussian query points have coordinates -2/4 .. MaxGaussP/4 per axis
MaxGaussP == 10

(***************************************************************************)
(* Exact rational arithmetic                                               *)
(***************************************************************************)
Abs(x) == IF x < 0 THEN -x ELSE x

RECURSIVE GCD(_, _)
GCD(a, b) == IF b = 0 THEN a ELSE GCD(b, a % b)

\* the rational n/d (d # 0) in lowest terms with a positive denominator
Rat(n, d) ==
  LET s == IF d < 0 THEN -1 ELSE 1
      g == GCD(Abs(n), Abs(d))
  IN  [n |-> (s * n) \div g, d |-> (s * d) \div g]

RInt(i) == [n |-> i, d |-> 1]
RZero == RInt(0)
PosMax == [n |-> 1, d |-> 0]
NegMax == [n |-> -1, d |-> 0]

RAdd(a, b) == Rat(a.n * b.d + b.n * a.d, a.d * b.d)
RSub(a, b) == Rat(a.n * b.d - b.n * a.d, a.d * b.d)
RMul(a, b) == Rat(a.n * b.n, a.d * b.d)
RDiv(a, b) == Rat(a.n * b.d, a.d * b.n)
RNeg(a) == [n |-> -a.n, d |-> a.d]
RLess(a, b) ==
  IF a.d = 0 /\ b.d = 0 THEN a.n < b.n ELSE a.n * b.d < b.n * a.d
RLeq(a, b) == ~RLess(b, a)
\* std::min(a, b) is (b < a) ? b : a, std::max(a, b) is (a < b) ? b : a
RMin(a, b) == IF RLess(b, a) THEN b ELSE a
RMax(a, b) == IF RLess(a, b) THEN b ELSE a
RSign(a) == IF a.n < 0 THEN -1 ELSE IF a.n = 0 THEN 0 ELSE 1
\* floor of a rational
RFloor(a) == a.n \div a.d

(***************************************************************************)
(* Vectors (Imath::V3d) as triples of rationals                            *)
(***************************************************************************)
Dims == 1..3
V3(x, y, z) == <<RInt(x), RInt(y), RInt(z)>>
VAdd(a, b) == [i \in Dims |-> RAdd(a[i], b[i])]
VSub(a, b) == [i \in Dims |-> RSub(a[i], b[i])]
VScale(a, t) == [i \in Dims |-> RMul(a[i], t)]
VDot(a, b) == RAdd(RAdd(RMul(a[1], b[1]), RMul(a[2], b[2])), RMul(a[3], b[3]))
VCross(a, b) ==
  << RSub(RMul(a[2], b[3]), RMul(a[3], b[2])),
     RSub(RMul(a[3], b[1]), RMul(a[1], b[3])),
     RSub(RMul(a[1], b[2]), RMul(a[2], b[1])) >>
\* the square of Vec3::length()
VLength2(a) == VDot(a, a)

\* Ray is Imath::Line3d: ray(t) = pos + dir * t
RayAt(ray, t) == VAdd(ray.pos, VScale(ray.dir, t))


(***************************************************************************)
(* Matrices (Imath::M44d).  The mappings of the model are axis-aligned     *)
(* affine transforms: a scale s and a translation t per axis, applied to a *)
(* row vector as p * M.                                                    *)
(***************************************************************************)
Matrix(sx, sy, sz, tx, ty, tz) == [s |-> V3(sx, sy, sz), t |-> V3(tx, ty, tz)]
\* M44d::multVecMatrix: the point transform
multVecMatrix(M, p) == [i \in Dims |-> RAdd(RMul(p[i], M.s[i]), M.t[i])]
\* M44d::multDirMatrix: the vector transform, without the translation
multDirMatrix(M, v) == [i \in Dims |-> RMul(v[i], M.s[i])]
\* M44d::inverse
inverse(M) ==
  [s |-> [i \in Dims |-> RDiv(RInt(1), M.s[i])],
   t |-> [i \in Dims |-> RNeg(RDiv(M.t[i], M.s[i]))]]
\* A * B: first A, then B
MatMul(A, B) ==
  [s |-> [i \in Dims |-> RMul(A.s[i], B.s[i])],
   t |-> [i \in Dims |-> RAdd(RMul(A.t[i], B.s[i]), B.t[i])]]

(***************************************************************************)
(* Field mappings (Field3D).  Voxel space is local space times res.        *)
(***************************************************************************)
NullPtr == [kind |-> "null"]
\* the point an expression that divides by zero yields (no finite point)
Undefined == << >>

MatrixFieldMapping(M, res) ==
  [kind |-> "MatrixFieldMapping", localToWorld |-> M, res |-> res]
\* a camera at the world origin looking down -z with a square 90 degree
\* field of view; local z in [0, 1] runs linearly from near to far.  The
\* mapping reverses orientation, so the planes the intersection handler
\* builds from the corners have normals that point out of the frustum.
FrustumMapping(near, far, res) ==
  [kind |-> "FrustumMapping", near |-> near, far |-> far, res |-> res]
\* a mapping that is neither of the two (Field3D's NullFieldMapping)
NullFieldMapping(res) == [kind |-> "NullFieldMapping", res |-> res]

localToVoxel(mapping) ==
  [s |-> [i \in Dims |-> RInt(mapping.res[i])], t |-> V3(0, 0, 0)]

\* MatrixFieldMapping::worldToVoxel(): the world to voxel matrix
MatrixWorldToVoxel(mapping) ==
  MatMul(inverse(mapping.localToWorld), localToVoxel(mapping))

\* FrustumMapping::localToWorld(lsP, wsP)
FrustumLocalToWorld(mapping, lsP) ==
  LET depth == RAdd(RInt(mapping.near),
                    RMul(lsP[3], RInt(mapping.far - mapping.near)))
  IN  << RMul(RSub(RMul(RInt(2), lsP[1]), RInt(1)), depth),
         RMul(RSub(RMul(RInt(2), lsP[2]), RInt(1)), depth),
         RNeg(depth) >>

\* FrustumMapping::worldToLocal(wsP, lsP): the projective inverse, which
\* divides by the depth of the point
FrustumWorldToLocal(mapping, wsP) ==
  LET depth == RNeg(wsP[3])
  IN  IF depth.n = 0 THEN Undefined
      ELSE << RDiv(RAdd(RDiv(wsP[1], depth), RInt(1)), RInt(2)),
              RDiv(RAdd(RDiv(wsP[2], depth), RInt(1)), RInt(2)),
              RDiv(RSub(depth, RInt(mapping.near)),
                   RInt(mapping.far - mapping.near)) >>

\* FieldMapping::worldToVoxel(wsP, vsP), virtual
worldToVoxel(mapping, wsP) ==
  CASE mapping.kind = "MatrixFieldMapping" ->
         multVecMatrix(MatrixWorldToVoxel(mapping), wsP)
    [] mapping.kind = "FrustumMapping" ->
         LET lsP == FrustumWorldToLocal(mapping, wsP)
         IN  IF lsP = Undefined THEN Undefined
             ELSE multVecMatrix(localToVoxel(mapping), lsP)
    [] OTHER -> multVecMatrix(localToVoxel(mapping), wsP)

(***************************************************************************)
(* Planes (Imath::Plane3d).  Imath normalises the normal; the model keeps  *)
(* it unnormalised, which scales normal and distance by the same positive  *)
(* factor and changes neither the sign of a dot product nor intersectT.    *)
(***************************************************************************)
Plane(p1, p2, p3) ==
  LET normal == VCross(VSub(p2, p1), VSub(p3, p1))
  IN  [normal |-> normal, distance |-> VDot(normal, p1)]

\* Plane3::intersectT(line, t): FALSE for a line parallel to the plane
intersectTHits(p, ray) == VDot(p.normal, ray.dir).n # 0
intersectT(p, ray) ==
  RNeg(RDiv(RSub(VDot(p.normal, ray.pos), p.distance), VDot(p.normal, ray.dir)))

\* Math::cornerPoints of Bounds::zeroOne(): corner c (0..7) has x = bit 0,
\* y = bit 1, z = bit 2
cornerPoints == [c \in 0..7 |-> V3(c % 2, (c \div 2) % 2, (c \div 4) % 2)]

(***************************************************************************)
(* Intervals.  stepLength = (t1 - t0) / numSamples, where numSamples is a  *)
(* Euclidean length, is kept as its sign and its square, which is exact.   *)
(* A division by a zero numSamples is IEEE's: 0/0 is NaN, x/0 is infinite. *)
(***************************************************************************)
Interval(t0, t1, stepLength) == [t0 |-> t0, t1 |-> t1, stepLength |-> stepLength]

\* (t1 - t0) / (vsFar - vsNear).length()
StepLength(t0, t1, vsNear, vsFar) ==
  IF vsNear = Undefined \/ vsFar = Undefined
  THEN [kind |-> "nonfinite"]
  ELSE LET num == RSub(t1, t0)
           numSamples2 == VLength2(VSub(vsFar, vsNear))
       IN  IF numSamples2.n = 0
           THEN IF num.n = 0 THEN [kind |-> "NaN"]
                ELSE [kind |-> "infinite", sign |-> RSign(num)]
           ELSE [kind |-> "finite", sign |-> RSign(num),
                 square |-> RDiv(RMul(num, num), numSamples2)]

(***************************************************************************)
(* Math::intersect(ray, box, t0, t1) against Bounds::zeroOne(): the slab   *)
(* test.  An axis the ray is parallel to constrains nothing when the       *)
(* origin lies in its slab and is a miss otherwise; a box wholly behind    *)
(* the origin is a miss; a ray that touches the box in one point hits.     *)
(***************************************************************************)
SlabMiss == [hit |-> FALSE]

RECURSIVE SlabLoop(_, _, _, _)
SlabLoop(ray, dim, tNear, tFar) ==
  IF dim > 3 THEN [hit |-> TRUE, t0 |-> tNear, t1 |-> tFar]
  ELSE IF ray.dir[dim].n = 0
  THEN IF RLess(ray.pos[dim], RInt(0)) \/ RLess(RInt(1), ray.pos[dim])
       THEN SlabMiss
       ELSE SlabLoop(ray, dim + 1, tNear, tFar)
  ELSE LET a == RDiv(RSub(RInt(0), ray.pos[dim]), ray.dir[dim])
           b == RDiv(RSub(RInt(1), ray.pos[dim]), ray.dir[dim])
           near == RMax(tNear, RMin(a, b))
           far == RMin(tFar, RMax(a, b))
       IN  IF RLess(far, near) \/ RLess(far, RZero)
           THEN SlabMiss
           ELSE SlabLoop(ray, dim + 1, near, far)

MathIntersect(ray) == SlabLoop(ray, 1, NegMax, PosMax)

(***************************************************************************)
(* UniformMappingIntersection                                              *)
(***************************************************************************)
UniformMappingIntersection(mapping) ==
  [kind |-> "UniformMappingIntersection",
   m_localToWorld |-> mapping.localToWorld,
   m_worldToLocal |-> inverse(mapping.localToWorld),
   m_worldToVoxel |-> MatrixWorldToVoxel(mapping)]

\* a variant that transforms the direction as a point
UniformLocalRayAsPoints(h, wsRay) ==
  [pos |-> multVecMatrix(h.m_worldToLocal, wsRay.pos),
   dir |-> multVecMatrix(h.m_worldToLocal, wsRay.dir)]

\* the ray in local space
UniformLocalRay(h, wsRay) ==
  [pos |-> multVecMatrix(h.m_worldToLocal, wsRay.pos),
   dir |-> multDirMatrix(h.m_worldToLocal, wsRay.dir)]

UniformIntersect(h, wsRay) ==
  LET r == MathIntersect(UniformLocalRay(h, wsRay))
  IN  IF r.hit
      THEN LET wsNear == RayAt(wsRay, r.t0)
               wsFar == RayAt(wsRay, r.t1)
               vsNear == multVecMatrix(h.m_worldToVoxel, wsNear)
               vsFar == multVecMatrix(h.m_worldToVoxel, wsFar)
           IN  << Interval(r.t0, r.t1, StepLength(r.t0, r.t1, vsNear, vsFar)) >>
      ELSE << >>

(***************************************************************************)
(* FrustumMappingIntersection                                              *)
(***************************************************************************)
FrustumMappingIntersection(mapping) ==
  LET wsCorners == [c \in 0..7 |-> FrustumLocalToWorld(mapping, cornerPoints[c])]
  IN  [kind |-> "FrustumMappingIntersection",
       m_mapping |-> mapping,
       m_planes |->
         << Plane(wsCorners[4], wsCorners[0], wsCorners[6]),
            Plane(wsCorners[1], wsCorners[5], wsCorners[3]),
            Plane(wsCorners[4], wsCorners[5], wsCorners[0]),
            Plane(wsCorners[2], wsCorners[3], wsCorners[6]),
            Plane(wsCorners[0], wsCorners[1], wsCorners[2]),
            Plane(wsCorners[5], wsCorners[4], wsCorners[7]) >>]

\* a variant with the two branches' bounds exchanged
FrustumPlaneStepSwapped(p, wsRay, t0, t1) ==
  IF intersectTHits(p, wsRay)
  THEN IF RLess(RZero, VDot(wsRay.dir, p.normal))
       THEN << RMax(t0, intersectT(p, wsRay)), t1 >>
       ELSE << t0, RMin(t1, intersectT(p, wsRay)) >>
  ELSE << t0, t1 >>

\* one turn of the loop over the planes: the bounds <<t0, t1>> after plane p
FrustumPlaneStep(p, wsRay, t0, t1) ==
  IF intersectTHits(p, wsRay)
  THEN IF RLess(RZero, VDot(wsRay.dir, p.normal))
       THEN << t0, RMin(t1, intersectT(p, wsRay)) >>
       ELSE << RMax(t0, intersectT(p, wsRay)), t1 >>
  ELSE << t0, t1 >>

RECURSIVE FrustumPlaneLoop(_, _, _, _, _)
FrustumPlaneLoop(planes, wsRay, i, t0, t1) ==
  IF i > Len(planes) THEN << t0, t1 >>
  ELSE LET b == FrustumPlaneStep(planes[i], wsRay, t0, t1)
       IN  FrustumPlaneLoop(planes, wsRay, i + 1, b[1], b[2])

\* the part of intersect after the loop
FrustumInterval(h, wsRay, t0, t1) ==
  IF RLess(t0, t1)
  THEN LET c0 == RMax(t0, RZero)
           wsNear == RayAt(wsRay, c0)
           wsFar == RayAt(wsRay, t1)
           vsNear == worldToVoxel(h.m_mapping, wsNear)
           vsFar == worldToVoxel(h.m_mapping, wsFar)
       IN  << Interval(c0, t1, StepLength(c0, t1, vsNear, vsFar)) >>
  ELSE << >>

FrustumIntersect(h, wsRay) ==
  LET b == FrustumPlaneLoop(h.m_planes, wsRay, 1, NegMax, PosMax)
  IN  FrustumInterval(h, wsRay, b[1], b[2])

\* IntersectionHandler::intersect, virtual
HandlerIntersect(h, wsRay) ==
  IF h.kind = "UniformMappingIntersection"
  THEN UniformIntersect(h, wsRay)
  ELSE FrustumIntersect(h, wsRay)

(***************************************************************************)
(* Voxel buffers.  A buffer has one attribute name, a mapping (or none), a *)
(* data window of voxel indices and its voxel data; the buffers a volume   *)
(* wraps here hold one value, fill, in every voxel.                        *)
(***************************************************************************)
Box3i(lo, hi) == [min |-> << lo, lo, lo >>, max |-> << hi, hi, hi >>]

VoxelBuffer(attribute, mapping, dataWindow, fill) ==
  [attribute |-> attribute, mapping |-> mapping,
   dataWindow |-> dataWindow, fill |-> fill]

Res2 == << 2, 2, 2 >>
IdentityMapping == MatrixFieldMapping(Matrix(1, 1, 1, 0, 0, 0), Res2)
\* local [0,1]^3 is world [-1,1]^3
ScaledMapping == MatrixFieldMapping(Matrix(2, 2, 2, -1, -1, -1), Res2)
\* mirrored in x, stretched in y
MirrorMapping == MatrixFieldMapping(Matrix(-1, 2, 1, 1, -1, 0), << 2, 4, 1 >>)
NearFrustum == FrustumMapping(1, 2, Res2)
DeepFrustum == FrustumMapping(1, 3, << 2, 2, 4 >>)

DensityBuffer == VoxelBuffer("density", IdentityMapping, Box3i(0, 1), 1)
TemperatureBuffer == VoxelBuffer("temperature", NearFrustum, Box3i(0, 1), 2)
NoMappingBuffer == VoxelBuffer("density", NullPtr, Box3i(0, 1), 3)
NullMappingBuffer == VoxelBuffer("density", NullFieldMapping(Res2), Box3i(0, 1), 4)

\* the buffers setBuffer is called with: the four above and the null pointer
Buffers ==
  { DensityBuffer, TemperatureBuffer, NoMappingBuffer, NullMappingBuffer, NullPtr }

\* the buffers the intersection handlers are exercised on
GeomBuffers ==
  { VoxelBuffer("density", m, Box3i(0, 1), 1) :
      m \in { IdentityMapping, ScaledMapping, MirrorMapping,
              NearFrustum, DeepFrustum } }

\* Field3D files as load() sees them: whether open() succeeds and the
\* <float> vector layers read, each a dense field (a buffer) or not
File(open, layers) == [open |-> open, layers |-> layers]
Dense(buffer) == [dense |-> TRUE, buffer |-> buffer]
Sparse == [dense |-> FALSE]
Files ==
  { File(FALSE, << >>), File(TRUE, << >>), File(TRUE, << Sparse >>),
    File(TRUE, << Sparse, Dense(DensityBuffer) >>),
    File(TRUE, << Dense(DensityBuffer) >>),
    File(TRUE, << Dense(TemperatureBuffer), Sparse >>),
    File(TRUE, << Dense(NullMappingBuffer) >>) }

(***************************************************************************)
(* VolumeAttr: a name and a cached index                                   *)
(***************************************************************************)
IndexNotSet == -1
IndexInvalid == -2
AttrNames == { "density", "temperature" }

\* Volume::setupVolumeAttr(attr, name, index): the index attr is given
setupVolumeAttr(attrName, name, index) ==
  IF attrName = name THEN index ELSE IndexInvalid

(***************************************************************************)
(* Inputs of sample and intersect                                          *)
(***************************************************************************)
Halves == { Rat(a, 2) : a \in -1..3 }
\* world positions sampled; none lies in the camera plane z = 0
SamplePoints ==
  { << x, y, z >> : x \in Halves, y \in { Rat(0, 1), Rat(1, 2), Rat(3, 2) },
                    z \in { Rat(-3, 2), Rat(1, 2) } }

Coords == -MaxCoord .. MaxCoord
Directions == { d \in { V3(x, y, z) : x, y, z \in -1..1 } : d # V3(0, 0, 0) }
\* rays with integer origins and a non-zero direction
Rays == { [pos |-> V3(x, y, z), dir |-> d] : x, y, z \in Coords, d \in Directions }
\* the rays the volume as a whole is exercised on
FewRays ==
  { [pos |-> V3(0, 0, z), dir |-> V3(0, 0, dz)] : z \in { -2, 1 }, dz \in { -1, 1 } }

(***************************************************************************)
(* The state: one VoxelVolume, the VolumeAttr objects of the renderer (one *)
(* per name), the threads inside sample(), and the last call made with     *)
(* what it returned.                                                       *)
(***************************************************************************)
VARIABLES
  m_buffer,               \* VoxelVolume::m_buffer, NullPtr when unset
  m_intersectionHandler,  \* VoxelVolume::m_intersectionHandler, or NullPtr
  attrs,                  \* VolumeAttr::m_index of the attribute of each name
  threads,                \* the calls of sample() in flight, one per thread
  last                    \* the last call that ended, with its outcome

vars == << m_buffer, m_intersectionHandler, attrs, threads, last >>

ZeroColor == 0

\* the process ended in the last call: a failed assertion or a null
\* pointer dereference
Crashed == last.outcome \in { "assertion failure", "segmentation fault" }
\* what dereferencing a null smart pointer does: boost asserts px != 0,
\* and without assertions the dereference itself faults
NullDereference == { "assertion failure", "segmentation fault" }

(***************************************************************************)
(* VoxelVolume's operations as functions of the members                    *)
(***************************************************************************)
\* isInBounds(vsP, dataWindow)
isInBounds(vsP, dataWindow) ==
  \A dim \in Dims :
    ~ ( RLess(vsP[dim], RInt(dataWindow.min[dim]))
        \/ RLess(RInt(dataWindow.max[dim]), vsP[dim]) )

\* LinearFieldInterp::sample(buffer, vsP): the trilinear weights sum to one
\* and the lookups are clamped to the data window, so that on a buffer
\* holding one value everywhere the result is that value
LinearFieldInterpSample(buffer, vsP) == buffer.fill

\* a variant that builds the vector with two copies of the name
attributeNamesTwice == << m_buffer.attribute, m_buffer.attribute >>

\* VoxelVolume::attributeNames(); m_buffer must be set
attributeNames == << m_buffer.attribute >>

\* a variant without the final throw: an unsupported mapping is passed over
updateIntersectionHandlerSilent(buffer, handler) ==
  IF buffer = NullPtr
  THEN [outcome |-> "MissingBufferException", handler |-> handler]
  ELSE IF buffer.mapping = NullPtr
  THEN [outcome |-> "MissingMappingException", handler |-> handler]
  ELSE IF buffer.mapping.kind = "MatrixFieldMapping"
  THEN [outcome |-> "returned",
        handler |-> UniformMappingIntersection(buffer.mapping)]
  ELSE IF buffer.mapping.kind = "FrustumMapping"
  THEN [outcome |-> "returned",
        handler |-> FrustumMappingIntersection(buffer.mapping)]
  ELSE [outcome |-> "returned", handler |-> handler]

\* VoxelVolume::updateIntersectionHandler(): how it ends and the handler
\* it leaves
updateIntersectionHandler(buffer, handler) ==
  IF buffer = NullPtr
  THEN [outcome |-> "MissingBufferException", handler |-> handler]
  ELSE IF buffer.mapping = NullPtr
  THEN [outcome |-> "MissingMappingException", handler |-> handler]
  ELSE IF buffer.mapping.kind = "MatrixFieldMapping"
  THEN [outcome |-> "returned",
        handler |-> UniformMappingIntersection(buffer.mapping)]
  ELSE IF buffer.mapping.kind = "FrustumMapping"
  THEN [outcome |-> "returned",
        handler |-> FrustumMappingIntersection(buffer.mapping)]
  ELSE [outcome |-> "UnsupportedMappingException", handler |-> handler]

\* the part of sample() after the attribute is known to be valid
SamplePosition(buffer, wsP) ==
  LET vsP == worldToVoxel(buffer.mapping, wsP)
  IN  IF ~isInBounds(vsP, buffer.dataWindow)
      THEN ZeroColor
      ELSE LinearFieldInterpSample(buffer, vsP)

\* VoxelVolume::load(filename): what is logged, the buffer kept and whether
\* the intersection handler is updated
loadFile(buffer, file) ==
  IF ~file.open
  THEN [log |-> "Couldn't load", buffer |-> buffer, update |-> FALSE]
  ELSE IF Len(file.layers) = 0
  THEN [log |-> "No <float> fields could be loaded",
        buffer |-> buffer, update |-> FALSE]
  ELSE IF file.layers[1].dense
  THEN [log |-> "", buffer |-> file.layers[1].buffer, update |-> TRUE]
  ELSE [log |-> "No DenseField in", buffer |-> buffer, update |-> TRUE]

(***************************************************************************)
(* The calls                                                               *)
(***************************************************************************)
Init ==
  /\ m_buffer = NullPtr
  /\ m_intersectionHandler = NullPtr
  /\ attrs = [a \in AttrNames |-> IndexNotSet]
  /\ threads = << >>
  /\ last = [op |-> "construct", outcome |-> "returned"]

\* setBuffer(buffer)
setBuffer(buffer) ==
  /\ ~Crashed
  /\ LET u == updateIntersectionHandler(buffer, m_intersectionHandler)
     IN  /\ m_buffer' = buffer
         /\ m_intersectionHandler' = u.handler
         /\ last' = [op |-> "setBuffer", buffer |-> buffer, outcome |-> u.outcome]
  /\ UNCHANGED << attrs, threads >>

\* load(filename)
load(file) ==
  /\ ~Crashed
  /\ LET l == loadFile(m_buffer, file)
         u == IF l.update
              THEN updateIntersectionHandler(l.buffer, m_intersectionHandler)
              ELSE [outcome |-> "returned", handler |-> m_intersectionHandler]
     IN  /\ m_buffer' = l.buffer
         /\ m_intersectionHandler' = u.handler
         /\ last' = [op |-> "load", file |-> file, log |-> l.log,
                     outcome |-> u.outcome,
                     bufferBefore |-> m_buffer,
                     handlerBefore |-> m_intersectionHandler]
  /\ UNCHANGED << attrs, threads >>

\* the record of a call of sample() that ended
SampleCrashed(wsP, a, o) == [op |-> "sample", wsP |-> wsP, attr |-> a, outcome |-> o]
SampleReturned(wsP, a, color) ==
  [op |-> "sample", wsP |-> wsP, attr |-> a, outcome |-> "returned",
   result |-> color]

\* sample(state, attribute), run by one thread from start to end
sample(wsP, a) ==
  /\ ~Crashed
  /\ IF attrs[a] = IndexNotSet /\ m_buffer = NullPtr
     THEN \* m_buffer->attribute
          /\ \E o \in NullDereference : last' = SampleCrashed(wsP, a, o)
          /\ UNCHANGED attrs
     ELSE LET index == IF attrs[a] = IndexNotSet
                       THEN setupVolumeAttr(a, m_buffer.attribute, 0)
                       ELSE attrs[a]
          IN  /\ attrs' = [attrs EXCEPT ![a] = index]
              /\ IF index = IndexInvalid
                 THEN last' = SampleReturned(wsP, a, ZeroColor)
                 ELSE IF m_buffer = NullPtr \/ m_buffer.mapping = NullPtr
                 THEN \* m_buffer->mapping()->worldToVoxel
                      \E o \in NullDereference : last' = SampleCrashed(wsP, a, o)
                 ELSE last' = SampleReturned(wsP, a, SamplePosition(m_buffer, wsP))
  /\ UNCHANGED << m_buffer, m_intersectionHandler, threads >>

\* intersect(state)
intersect(wsRay) ==
  /\ ~Crashed
  /\ IF m_intersectionHandler = NullPtr
     THEN \* assert (m_intersectionHandler), then the call through it
          \E o \in NullDereference :
            last' = [op |-> "intersect", wsRay |-> wsRay, outcome |-> o]
     ELSE last' = [op |-> "intersect", wsRay |-> wsRay, outcome |-> "returned",
                   result |-> HandlerIntersect(m_intersectionHandler, wsRay)]
  /\ UNCHANGED << m_buffer, m_intersectionHandler, attrs, threads >>

Next ==
  \/ \E b \in Buffers : setBuffer(b)
  \/ \E f \in Files : load(f)
  \/ \E wsP \in SamplePoints, a \in AttrNames : sample(wsP, a)
  \/ \E r \in FewRays : intersect(r)

Spec == Init /\ [][Next]_vars

(***************************************************************************)
(* Properties of the volume as a whole, under Spec                         *)
(***************************************************************************)
\* the last call ran updateIntersectionHandler()
UpdateRan ==
  \/ last.op = "setBuffer"
  \/ last.op = "load" /\ last.file.open /\ Len(last.file.layers) > 0

SupportedMappings == { "MatrixFieldMapping", "FrustumMapping" }

\* the handler variant that belongs to a mapping
MatchingHandler(h, mapping) ==
  \/ /\ mapping.kind = "MatrixFieldMapping"
     /\ h.kind = "UniformMappingIntersection"
     /\ h.m_localToWorld = mapping.localToWorld
  \/ /\ mapping.kind = "FrustumMapping"
     /\ h.kind = "FrustumMappingIntersection"
     /\ h.m_mapping = mapping

\* C1: updateIntersectionHandler throws exactly when the buffer is absent,
\* its mapping is absent or the mapping is neither Uniform nor Frustum, and
\* otherwise returns with the handler variant that matches the mapping.
C1_UpdateFailsOrMatches ==
  UpdateRan =>
    /\ last.outcome # "returned" <=>
         \/ m_buffer = NullPtr
         \/ m_buffer.mapping = NullPtr
         \/ m_buffer.mapping.kind \notin SupportedMappings
    /\ last.outcome = "returned" =>
         MatchingHandler(m_intersectionHandler, m_buffer.mapping)

\* C1's case: a call that failed on an unsupported mapping while an older
\* handler is in place
C1_Witness ==
  /\ last.op = "setBuffer"
  /\ last.outcome = "UnsupportedMappingException"
  /\ m_buffer = NullMappingBuffer
  /\ m_intersectionHandler # NullPtr

\* the file of the last load had a resource problem: it could not be
\* opened, held no float vector layer, or its first layer is not dense
ResourceProblem(file) ==
  \/ ~file.open
  \/ Len(file.layers) = 0
  \/ ~file.layers[1].dense

\* C2: on a resource problem load logs a warning, returns normally and
\* leaves the buffer and the intersection handler as they were.
C2_LoadAbsorbsResourceProblems ==
  (last.op = "load" /\ ResourceProblem(last.file)) =>
    /\ last.outcome = "returned"
    /\ last.log # ""
    /\ m_buffer = last.bufferBefore
    /\ m_intersectionHandler = last.handlerBefore

\* C3: sample returns the zero color when the attribute's name is not the
\* wrapped buffer's attribute name, and when the voxel-space position lies
\* outside the data window.
C3_SampleZeroOutsideDomain ==
  (last.op = "sample" /\ last.outcome = "returned" /\ m_buffer # NullPtr) =>
    /\ last.attr # m_buffer.attribute => last.result = ZeroColor
    /\ ( /\ m_buffer.mapping # NullPtr
         /\ ~isInBounds(worldToVoxel(m_buffer.mapping, last.wsP),
                        m_buffer.dataWindow) )
       => last.result = ZeroColor

\* the calls that, by C7, leave attributeNames() as it is
KeepsBuffer(call) ==
  \/ call.op \in { "sample", "intersect" }
  \/ call.op = "load" /\ ~call.file.open

\* C7: after setBuffer(b) returns normally attributeNames() is the list of
\* b's attribute name alone, and sample, intersect and a load of a file
\* that cannot be opened leave it so.
C7_AttributeNamesRoundTrip ==
  [][ /\ (last'.op = "setBuffer" /\ last'.outcome = "returned")
           => attributeNames' = << last'.buffer.attribute >>
      /\ (m_buffer # NullPtr /\ KeepsBuffer(last'))
           => attributeNames' = attributeNames ]_vars

\* C7's case: a buffer was set, and a load that could not open its file
\* has run since
C7_Witness ==
  /\ last.op = "load"
  /\ ~last.file.open
  /\ m_buffer = TemperatureBuffer
  /\ attributeNames = << "temperature" >>

\* the handler in place was built from the mapping of the wrapped buffer
HandlerOfWrappedBuffer ==
  /\ m_buffer # NullPtr
  /\ m_buffer.mapping # NullPtr
  /\ MatchingHandler(m_intersectionHandler, m_buffer.mapping)

\* C11: after any sequence of setBuffer, load, sample and intersect calls,
\* those that threw included, an intersection handler that is present was
\* built from the mapping of the currently wrapped buffer, and a call of
\* intersect that returned intervals ran on such a handler, never while
\* the wrapped buffer is absent.
C11_HandlerFollowsBuffer ==
  /\ m_intersectionHandler # NullPtr => HandlerOfWrappedBuffer
  /\ (last.op = "intersect" /\ last.outcome = "returned")
       => HandlerOfWrappedBuffer

(***************************************************************************)
(* The intersection handlers on all rays of the bounded set.  intersect()   *)
(* is const: what it returns depends on the handler and the ray alone, so  *)
(* it is enough to send each ray once after each setBuffer.                *)
(***************************************************************************)
NextIntersect ==
  \/ \E b \in GeomBuffers : setBuffer(b)
  \/ last.op = "setBuffer" /\ \E r \in Rays : intersect(r)

SpecIntersect == Init /\ [][NextIntersect]_vars

\* the last call was intersect() and went through a handler of this kind
Intersected(kind) ==
  /\ last.op = "intersect"
  /\ last.outcome = "returned"
  /\ m_intersectionHandler.kind = kind

\* C4: every interval of FrustumMappingIntersection::intersect has
\* 0 <= t0 <= t1.
C4_FrustumIntervalOrdered ==
  Intersected("FrustumMappingIntersection") =>
    \A i \in DOMAIN last.result :
      /\ RLeq(RZero, last.result[i].t0)
      /\ RLeq(last.result[i].t0, last.result[i].t1)

\* C5: the stepLength of every interval either handler returns is a
\* number (numSamples is not zero) and is strictly positive.
C5_StepLengthPositive ==
  (last.op = "intersect" /\ last.outcome = "returned") =>
    \A i \in DOMAIN last.result :
      /\ last.result[i].stepLength.kind = "finite"
      /\ last.result[i].stepLength.sign = 1

\* the greatest and the least of a non-empty finite set of rationals
RMaxOf(S) == CHOOSE x \in S : \A y \in S : RLeq(y, x)
RMinOf(S) == CHOOSE x \in S : \A y \in S : RLeq(x, y)

\* the parameters at which the ray meets the planes it runs against
\* (dot < 0) and the planes it runs along with (dot > 0)
OpposingTs(planes, ray) ==
  { intersectT(planes[i], ray) :
      i \in { j \in DOMAIN planes : VDot(ray.dir, planes[j].normal).n < 0 } }
NonOpposingTs(planes, ray) ==
  { intersectT(planes[i], ray) :
      i \in { j \in DOMAIN planes : VDot(ray.dir, planes[j].normal).n > 0 } }

\* C8: from t0 = -infinity and t1 = +infinity, a plane with dot > 0 only
\* lowers t1, a plane with dot < 0 only raises t0 and a parallel plane
\* changes neither; the result is empty if t0 >= t1 and one interval (from
\* t0, not below 0, to t1) otherwise.
C8_FrustumBoundsFromPlanes ==
  Intersected("FrustumMappingIntersection") =>
    LET planes == m_intersectionHandler.m_planes
        t0 == RMaxOf(OpposingTs(planes, last.wsRay) \cup { NegMax })
        t1 == RMinOf(NonOpposingTs(planes, last.wsRay) \cup { PosMax })
    IN  IF RLeq(t1, t0)
        THEN last.result = << >>
        ELSE /\ Len(last.result) = 1
             /\ last.result[1].t1 = t1
             /\ last.result[1].t0 = RMax(t0, RZero)

\* C8's case: a ray parallel to one of the six planes that crosses the
\* frustum in front of its origin
C8_Witness ==
  /\ Intersected("FrustumMappingIntersection")
  /\ \E j \in 1..6 :
       VDot(last.wsRay.dir, m_intersectionHandler.m_planes[j].normal).n = 0
  /\ Len(last.result) = 1
  /\ RLess(RZero, last.result[1].t0)

\* the image in local space of the point of the world space ray at t
LocalPoint(mapping, ray, t) ==
  multVecMatrix(inverse(mapping.localToWorld), RayAt(ray, t))

InUnitBox(p) == \A i \in Dims : RLeq(RZero, p[i]) /\ RLeq(p[i], RInt(1))

\* the parameters at which the local image of the ray crosses one of the
\* six planes of the unit box, and those of them at which it is in the box:
\* when the line meets the box, their least and greatest are where it
\* enters and leaves
BoxCrossings(mapping, ray) ==
  LET p0 == LocalPoint(mapping, ray, RZero)
      p1 == LocalPoint(mapping, ray, RInt(1))
      cross == { RDiv(RSub(RInt(b), p0[i]), RSub(p1[i], p0[i])) :
                   << i, b >> \in { ib \in Dims \X { 0, 1 } :
                                      p1[ib[1]] # p0[ib[1]] } }
  IN  { t \in cross : InUnitBox(LocalPoint(mapping, ray, t)) }

\* C9: UniformMappingIntersection::intersect returns the empty list for a
\* ray whose local image misses the unit box, and otherwise one interval
\* whose t0 and t1 are the parameters, on the world space ray, at which the
\* image enters and leaves the box.
C9_UniformEntryExit ==
  Intersected("UniformMappingIntersection") =>
    LET crossings == BoxCrossings(m_buffer.mapping, last.wsRay)
    IN  IF crossings = { } \/ RLess(RMaxOf(crossings), RZero)
        THEN last.result = << >>
        ELSE /\ Len(last.result) = 1
             /\ last.result[1].t0 = RMinOf(crossings)
             /\ last.result[1].t1 = RMaxOf(crossings)

\* C9's case: a ray that starts outside a translated, mirrored box and
\* passes through it
C9_Witness ==
  /\ Intersected("UniformMappingIntersection")
  /\ m_buffer.mapping = MirrorMapping
  /\ Len(last.result) = 1
  /\ RLess(RZero, last.result[1].t0)
  /\ RLess(last.result[1].t0, last.result[1].t1)

(***************************************************************************)
(* sample() called from several threads with one VolumeAttr, on a volume   *)
(* whose buffer stays as set.  A thread runs sample() in four steps, the   *)
(* reads and the write of the attribute's index among them.  The index is  *)
(* a plain int: the racing stores all store the same value and a load      *)
(* yields the value before or after a store, so the interleavings of these *)
(* steps are the outcomes of the race.                                     *)
(***************************************************************************)
Threads == 1..NumThreads

\* world positions the threads sample: inside and outside either buffer
ThreadPoints ==
  { << Rat(0, 1), Rat(0, 1), Rat(1, 2) >>,
    << Rat(0, 1), Rat(0, 1), Rat(-3, 2) >>,
    << Rat(3, 2), Rat(3, 2), Rat(1, 2) >> }

IdleThread(a) ==
  [pc |-> "idle", attr |-> a, wsP |-> << >>, index |-> IndexNotSet,
   result |-> ZeroColor]

InitThreads ==
  /\ m_buffer \in { DensityBuffer, TemperatureBuffer }
  /\ m_intersectionHandler = updateIntersectionHandler(m_buffer, NullPtr).handler
  /\ attrs = [a \in AttrNames |-> IndexNotSet]
  /\ \E a \in AttrNames : threads = [t \in Threads |-> IdleThread(a)]
  /\ last = [op |-> "setBuffer", buffer |-> m_buffer, outcome |-> "returned"]

\* thread t enters sample(state, attribute)
ThreadCall(t, wsP) ==
  /\ threads[t].pc \in { "idle", "done" }
  /\ threads' = [threads EXCEPT ![t].pc = "check index not set", ![t].wsP = wsP]
  /\ UNCHANGED << m_buffer, m_intersectionHandler, attrs, last >>

\* a variant that tests for the wrong constant and so never resolves
ThreadCheckNotSetWrongConstant(t) ==
  /\ threads[t].pc = "check index not set"
  /\ threads' = [threads EXCEPT
       ![t].index = attrs[threads[t].attr],
       ![t].pc = IF attrs[threads[t].attr] = IndexInvalid
                 THEN "setup" ELSE "check index invalid"]
  /\ UNCHANGED << m_buffer, m_intersectionHandler, attrs, last >>

\* if (attribute.index() == VolumeAttr::IndexNotSet)
ThreadCheckNotSet(t) ==
  /\ threads[t].pc = "check index not set"
  /\ threads' = [threads EXCEPT
       ![t].index = attrs[threads[t].attr],
       ![t].pc = IF attrs[threads[t].attr] = IndexNotSet
                 THEN "setup" ELSE "check index invalid"]
  /\ UNCHANGED << m_buffer, m_intersectionHandler, attrs, last >>

\* setupVolumeAttr(attribute, m_buffer->attribute, 0)
ThreadSetup(t) ==
  /\ threads[t].pc = "setup"
  /\ attrs' = [attrs EXCEPT ![threads[t].attr] =
                 setupVolumeAttr(threads[t].attr, m_buffer.attribute, 0)]
  /\ threads' = [threads EXCEPT ![t].pc = "check index invalid"]
  /\ UNCHANGED << m_buffer, m_intersectionHandler, last >>

\* if (attribute.index() == VolumeAttr::IndexInvalid) return Colors::zero()
ThreadCheckInvalid(t) ==
  /\ threads[t].pc = "check index invalid"
  /\ threads' = [threads EXCEPT
       ![t].index = attrs[threads[t].attr],
       ![t].pc = IF attrs[threads[t].attr] = IndexInvalid
                 THEN "done" ELSE "position",
       ![t].result = ZeroColor]
  /\ UNCHANGED << m_buffer, m_intersectionHandler, attrs, last >>

\* the rest of sample(): the position, the bounds test, the interpolation
ThreadPosition(t) ==
  /\ threads[t].pc = "position"
  /\ threads' = [threads EXCEPT
       ![t].pc = "done",
       ![t].result = SamplePosition(m_buffer, threads[t].wsP)]
  /\ UNCHANGED << m_buffer, m_intersectionHandler, attrs, last >>

NextThreads ==
  \E t \in Threads :
    \/ \E wsP \in ThreadPoints : ThreadCall(t, wsP)
    \/ ThreadCheckNotSet(t)
    \/ ThreadSetup(t)
    \/ ThreadCheckInvalid(t)
    \/ ThreadPosition(t)

SpecThreads == InitThreads /\ [][NextThreads]_vars

\* the index one call of sample() alone gives an attribute of this name
SequentialIndex(a) == IF a = m_buffer.attribute THEN 0 ELSE IndexInvalid

\* C6: under every interleaving the attribute's index is unset or the
\* index a sequential call gives it, no thread reads another value, a
\* thread past the resolution finds the attribute resolved, and every call
\* returns what a sequential call returns.
C6_ResolutionRaceSafe ==
  \A t \in Threads :
    LET th == threads[t]
        final == SequentialIndex(th.attr)
    IN  /\ attrs[th.attr] \in { IndexNotSet, final }
        /\ th.index \in { IndexNotSet, final }
        /\ th.pc \in { "check index invalid", "position", "done" }
             => attrs[th.attr] = final
        /\ th.pc \in { "position", "done" } => th.index = final
        /\ th.pc = "done" =>
             th.result = IF final = IndexInvalid THEN ZeroColor
                         ELSE SamplePosition(m_buffer, th.wsP)

\* C6's case: thread 2 has returned the zero color for an attribute the
\* buffer lacks while thread 1, which read the index before it was
\* resolved, is about to resolve it once more
C6_Witness ==
  /\ threads[1].pc = "setup"
  /\ threads[2].pc = "done"
  /\ threads[2].result = ZeroColor
  /\ attrs[threads[1].attr] = IndexInvalid

(***************************************************************************)
(* GaussianFieldInterp.  Query points lie on the quarter-voxel grid, so a  *)
(* tap's offset from the point is a multiple of 1/4 between -7/4 and 2; a  *)
(* far point has the coordinate DBL_MAX (PosMax), beyond the range of int. *)
(***************************************************************************)
\* Gaussian(2.0, 2.0).eval(x) = max(0, exp(-2 x^2) - exp(-8)) in float,
\* times 1000 and rounded, for |x| = 0, 1/4, ..., 2
KernelTable == << 1000, 882, 606, 324, 135, 44, 11, 2, 0 >>

\* Gaussian::eval(x).  The parameter is a float: an offset of magnitude
\* DBL_MAX arrives as an infinity, exp(-2 x^2) is 0 and the max() yields 0,
\* as it does for every |x| >= 2.
GaussianEval(x) ==
  IF x.d = 0 THEN 0
  ELSE IF Abs((4 * x.n) \div x.d) >= 8 THEN 0
  ELSE KernelTable[Abs((4 * x.n) \div x.d) + 1]
\* Gaussian::eval(x, y, z)
GaussianEval3(d) == GaussianEval(d[1]) * GaussianEval(d[2]) * GaussianEval(d[3])

\* discToCont(i)
discToCont(i) == Rat(2 * i + 1, 2)

\* a field: its data window and its voxels, all fill but for one, spike,
\* that holds 1
Field(lo, hi, fill, spike) ==
  [dataWindow |-> [min |-> lo, max |-> hi], fill |-> fill, spike |-> spike]

InWindow(idx, dataWindow) ==
  \A dim \in Dims : dataWindow.min[dim] <= idx[dim] /\ idx[dim] <= dataWindow.max[dim]

\* data.value(i, j, k).  A read outside the data window is a read outside
\* the field's storage and may yield anything; the interpolator's lookups,
\* being clamped, make none.
FieldValue(data, idx) ==
  IF ~InWindow(idx, data.dataWindow) THEN -1
  ELSE IF idx = data.spike THEN 1 ELSE data.fill

IntMin(a, b) == IF b < a THEN b ELSE a
IntMax(a, b) == IF a < b THEN b ELSE a

\* a variant that looks the tap's own index up
GaussLookupIndexUnclamped(i, lo, hi) == i

\* std::max(dataWindow.min.x, std::min(i, dataWindow.max.x))
GaussLookupIndex(i, lo, hi) == IntMax(lo, IntMin(i, hi))

\* clampedVsP
GaussClampedP(vsP) == [dim \in Dims |-> RMax(Rat(1, 2), vsP[dim])]

\* the range of int
IntMaxValue == 2147483647
IntMinValue == (-IntMaxValue) - 1

\* a + b in int arithmetic that wraps around, for a small b
WrapAdd(a, b) ==
  IF b > 0 /\ a > IntMaxValue - b
  THEN IntMinValue + ((b - 1) - (IntMaxValue - a))
  ELSE IF b < 0 /\ a < IntMinValue - b
  THEN IntMaxValue - (((-b) - 1) - (a - IntMinValue))
  ELSE a + b

\* What the build makes of the undefined steps: static_cast<int> of a
\* double beyond the range of int yields INT_MIN (x86) or saturates, and
\* a loop whose bound c + 4 overflows either compares i with the wrapped
\* bound (no turn) or is counted (four turns, the index wrapping).
UBOutcomes ==
  [cast : { IntMinValue, IntMaxValue }, loop : { "compared", "counted" }]

\* the point has a coordinate whose floor is beyond the range of int
BeyondInt(vsP) == \E dim \in Dims : vsP[dim].d = 0

\* the outcomes to tell apart at a point: one where nothing is undefined
UBOutcomesAt(vsP) ==
  IF BeyondInt(vsP) THEN UBOutcomes ELSE { CHOOSE ub \in UBOutcomes : TRUE }

\* static_cast<int>(floor(p))
FloorToInt(p, ub) == IF p.d = 0 THEN ub.cast ELSE RFloor(p)

\* c, the lower left corner of the neighbourhood
GaussCorner(vsP, ub) ==
  [dim \in Dims |->
     WrapAdd(FloorToInt(RSub(GaussClampedP(vsP)[dim], Rat(1, 2)), ub), -1)]

\* the indices for (i = c; i < c + 4; ++i) visits
LoopTurns(c, ub) ==
  IF c <= IntMaxValue - 4 THEN << c, c + 1, c + 2, c + 3 >>
  ELSE IF ub.loop = "compared" THEN << >>
  ELSE << c, WrapAdd(c, 1), WrapAdd(c, 2), WrapAdd(c, 3) >>

\* discToCont(i) - clampedVsP in double: next to DBL_MAX an index is lost
\* in rounding
GaussOffset(i, clamped) ==
  IF clamped.d = 0 THEN RNeg(clamped) ELSE RSub(discToCont(i), clamped)

\* the n-th turn (1..64) of the loops over k, j and i: the index, the
\* weight and the index looked up
GaussTap(data, vsP, n, ub) ==
  LET c == GaussCorner(vsP, ub)
      clampedVsP == GaussClampedP(vsP)
      idx == << LoopTurns(c[1], ub)[((n - 1) % 4) + 1],
                LoopTurns(c[2], ub)[(((n - 1) \div 4) % 4) + 1],
                LoopTurns(c[3], ub)[((n - 1) \div 16) + 1] >>
      offset == [dim \in Dims |-> GaussOffset(idx[dim], clampedVsP[dim])]
  IN  [index |-> idx,
       offset |-> offset,
       weight |-> GaussianEval3(offset),
       lookup |-> [dim \in Dims |->
                     GaussLookupIndex(idx[dim], data.dataWindow.min[dim],
                                      data.dataWindow.max[dim])]]

\* the sum of the 64 terms of f, as the loops accumulate it
Sum4(f, b) == f[b] + f[b + 1] + f[b + 2] + f[b + 3]
Sum16(f, b) == Sum4(f, b) + Sum4(f, b + 4) + Sum4(f, b + 8) + Sum4(f, b + 12)
Sum64(f) == Sum16(f, 1) + Sum16(f, 17) + Sum16(f, 33) + Sum16(f, 49)

\* GaussianFieldInterp::sample(data, vsP): the taps made and the result
GaussianSample(data, vsP, ub) ==
  LET c == GaussCorner(vsP, ub)
      turns == \A dim \in Dims : Len(LoopTurns(c[dim], ub)) = 4
      taps == IF turns THEN [n \in 1..64 |-> GaussTap(data, vsP, n, ub)]
              ELSE << >>
      value == IF turns
               THEN Sum64([n \in 1..64 |->
                             taps[n].weight * FieldValue(data, taps[n].lookup)])
               ELSE 0
      normalization == IF turns THEN Sum64([n \in 1..64 |-> taps[n].weight])
                       ELSE 0
  IN  [taps |-> taps,
       value |-> value,
       normalization |-> normalization,
       result |-> IF normalization = 0 THEN [kind |-> "NaN"]
                  ELSE [kind |-> "finite", value |-> Rat(value, normalization)]]

GaussCoords == { Rat(q, 4) : q \in -2 .. MaxGaussP }
GaussPoints == { << x, y, z >> : x, y, z \in GaussCoords }
GaussFields ==
  { Field(<< 0, 0, 0 >>, << 1, 1, 1 >>, 0, << 1, 1, 1 >>),
    Field(<< 1, 0, 0 >>, << 2, 1, 0 >>, 1, << 2, 0, 0 >>) }

\* one call of the interpolator, which keeps no state between calls
gaussianSample(data, vsP, ub) ==
  /\ last.op = "construct"
  /\ last' = [op |-> "GaussianFieldInterp::sample", data |-> data, vsP |-> vsP,
              outcome |-> "returned", sampled |-> GaussianSample(data, vsP, ub)]
  /\ UNCHANGED << m_buffer, m_intersectionHandler, attrs, threads >>

NextGauss ==
  \E data \in GaussFields, vsP \in GaussPoints :
    \E ub \in UBOutcomesAt(vsP) : gaussianSample(data, vsP, ub)

SpecGauss == Init /\ [][NextGauss]_vars

GaussSampled == last.op = "GaussianFieldInterp::sample"

GaussFarCoords == { PosMax, Rat(1, 4), Rat(5, 4) }
GaussFarPoints ==
  { p \in { << x, y, z >> : x, y, z \in GaussFarCoords } : BeyondInt(p) }

NextGaussFar ==
  \E data \in GaussFields, vsP \in GaussPoints \cup GaussFarPoints :
    \E ub \in UBOutcomesAt(vsP) : gaussianSample(data, vsP, ub)

SpecGaussFar == Init /\ [][NextGaussFar]_vars

\* the tap's offset lies in (-1, 0] on each axis
CentralTap(tap) ==
  \A dim \in Dims :
    RLess(RInt(-1), tap.offset[dim]) /\ RLeq(tap.offset[dim], RZero)

\* C12: for every finite query point the sum of the tap weights is
\* strictly positive, so that value / normalization never divides by
\* zero: the tap at floor(clampedP - 0.5) has an offset in (-1, 0] on each
\* axis and a positive weight, and every tap's offset is at most 2 in
\* magnitude on each axis.
C12_GaussNormalizationPositive ==
  GaussSampled =>
    LET taps == last.sampled.taps
    IN  /\ last.sampled.normalization > 0
        /\ last.sampled.result.kind = "finite"
        /\ \E n \in DOMAIN taps : CentralTap(taps[n]) /\ taps[n].weight > 0
        /\ \A n \in DOMAIN taps : \A dim \in Dims :
             /\ RLeq(RInt(-2), taps[n].offset[dim])
             /\ RLeq(taps[n].offset[dim], RInt(2))

=============================================================================
